---- MODULE Spec2Model ----
(***************************************************************************)
(* Model of push_storymap_r4_to_miro.py: the CSV loader (load_from_csv),   *)
(* the placement helpers and the renderer (render_storymap) that either    *)
(* prints a preview or posts frames, lane titles and sticky notes to the   *)
(* Miro board, one HTTP call at a time.                                    *)
(*                                                                         *)
(* Conventions.  Python indices are 0-based and kept 0-based in the        *)
(* variables; a TLA+ sequence s is read at s[i + 1].  A Python str that    *)
(* the code only stores or compares is a TLA+ string or a tuple used as an *)
(* opaque name; a str the code transforms (strip, lower) is a sequence of  *)
(* one-character strings.  Non-ASCII literals of the source are written    *)
(* in ASCII: "M'etier" for the accented team, "`A faire", "Bloqu'e",       *)
(* "`A valider", "Termin'e", "G'en'eral" and glyph names for the emoji.    *)
(* FRAME_W/2, FRAME_H/2 and LANE_HEIGHT/2 are exact (even constants), so   *)
(* Python's true division is integer division here.  time.sleep changes no *)
(* state and is left out.                                                  *)
(***************************************************************************)
EXTENDS Integers, Sequences, FiniteSets, TLC

VARIABLES
    model,       \* render_storymap: the story map dict being rendered
    dry_run,     \* render_storymap: the dry_run argument
    pc,          \* render_storymap: position in the three nested loops
    col_idx,     \* index of the theme loop
    lane_idx,    \* index of the activity loop
    k,           \* index of the zip(stories, positions) loop
    calls,       \* HTTP requests sent to the board, in order
    board,       \* items the board created (requests answered below 400)
    resp_status, \* status_code of the last HTTP response, 0 before any
    lines,       \* lines printed by render_storymap, in order
    header,      \* load_from_csv: the CSV file's header row (fieldnames)
    rows,        \* load_from_csv: the CSV file's data rows
    ri,          \* load_from_csv: number of data rows consumed
    themes,      \* load_from_csv: the themes dict, in insertion order
    loadpc       \* load_from_csv: "loop", "done" (returned) or "raised"

renderVars == <<model, dry_run, pc, col_idx, lane_idx, k, calls, board, resp_status, lines>>
loadVars == <<header, rows, ri, themes, loadpc>>
vars == <<model, dry_run, pc, col_idx, lane_idx, k, calls, board, resp_status, lines,
          header, rows, ri, themes, loadpc>>

(***************************************************************************)
(* Bounds of the model.                                                    *)
(***************************************************************************)
MaxThemes == 2

MaxActs == 2

MaxStories == 5

MaxRows == 3

(***************************************************************************)
(* Configuration of the source.                                            *)
(***************************************************************************)
TEAM_COLOR ==
    ("IHM" :> "light_yellow") @@ ("BPM" :> "light_green") @@
    ("M'etier" :> "light_blue") @@ ("Metier" :> "light_blue") @@
    ("Finance" :> "light_blue") @@ ("MO" :> "light_pink")

STATUS_EMOJI ==
    ("Backlog" :> "white_square") @@ ("`A faire" :> "blue_square") @@
    ("En cours" :> "yellow_square") @@ ("Bloqu'e" :> "red_square") @@
    ("`A valider" :> "purple_square") @@ ("Termin'e" :> "check_mark")

FRAME_W == 1800

FRAME_H == 1400

COL_GAP == 300

ROW_GAP == 200

STICKY_W == 220

STICKY_H == 140

STICKY_GAP_X == 40

STICKY_GAP_Y == 30

TITLE_HEIGHT == 100

LANE_HEIGHT == 260

ORIGIN_X == -2000

ORIGIN_Y == -1000

grid_columns == 4

prefix == "R4"

\* dict.get(key, default)
DictGet(d, key, default) == IF key \in DOMAIN d THEN d[key] ELSE default

(***************************************************************************)
(* Placement helpers.                                                      *)
(***************************************************************************)
compute_frame_origin_gapless(col_idx_, row_idx_) ==
    <<ORIGIN_X + col_idx_ * FRAME_W, ORIGIN_Y + row_idx_ * FRAME_H>>

compute_frame_origin(col_idx_, row_idx_) ==
    <<ORIGIN_X + col_idx_ * (FRAME_W + COL_GAP), ORIGIN_Y + row_idx_ * (FRAME_H + ROW_GAP)>>

lane_y(frame_y, lane_idx_) ==
    frame_y - (FRAME_H \div 2) + TITLE_HEIGHT + lane_idx_ * LANE_HEIGHT + (LANE_HEIGHT \div 2)

lane_title_y(frame_y, lane_idx_) ==
    frame_y - (FRAME_H \div 2) + TITLE_HEIGHT + lane_idx_ * LANE_HEIGHT + 30

sticky_grid_positions_colmajor(start_x, start_y, columns, count) ==
    [i \in 1..count |->
        LET row == (i - 1) % columns
            col == (i - 1) \div columns
        IN <<start_x + col * (STICKY_W + STICKY_GAP_X),
             start_y + row * (STICKY_H + STICKY_GAP_Y)>>]

sticky_grid_positions_nopitch(start_x, start_y, columns, count) ==
    [i \in 1..count |->
        LET row == (i - 1) \div columns
            col == (i - 1) % columns
        IN <<start_x + col * STICKY_GAP_X,
             start_y + row * (STICKY_H + STICKY_GAP_Y)>>]

sticky_grid_positions(start_x, start_y, columns, count) ==
    [i \in 1..count |->
        LET row == (i - 1) \div columns
            col == (i - 1) % columns
        IN <<start_x + col * (STICKY_W + STICKY_GAP_X),
             start_y + row * (STICKY_H + STICKY_GAP_Y)>>]

(***************************************************************************)
(* The HTTP layer: _post sends the request and raises RuntimeError when    *)
(* the answer's status_code is 400 or more.  A raised error is caught      *)
(* nowhere (render_storymap and main have no try), so it ends the run.     *)
(* The statuses the board may answer with:                                 *)
(***************************************************************************)
HttpStatus == {201, 400, 503}

post_swallow(req, status, cont) ==
    /\ calls' = Append(calls, req)
    /\ resp_status' = status
    /\ IF status >= 400
       THEN board' = board /\ cont
       ELSE board' = Append(board, req) /\ cont

post(req, status, cont) ==
    /\ calls' = Append(calls, req)
    /\ resp_status' = status
    /\ IF status >= 400
       THEN /\ pc' = "raised"
            /\ UNCHANGED <<board, lines, col_idx, lane_idx, k>>
       ELSE /\ board' = Append(board, req)
            /\ cont

create_frame(title, x, y) == [kind |-> "create_frame", text |-> title, x |-> x, y |-> y]

create_shape(text, x, y, w, h, shape) ==
    [kind |-> "create_shape", text |-> text, x |-> x, y |-> y, shape |-> shape, fontSize |-> 28]

create_sticky(text, x, y, color) ==
    [kind |-> "create_sticky", text |-> text, x |-> x, y |-> y, color |-> color,
     textAlign |-> "left"]

(***************************************************************************)
(* render_storymap, one action per loop iteration.                         *)
(***************************************************************************)
render_themes == DictGet(model, "themes", <<>>)

CurTheme == render_themes[col_idx + 1]

theme_name == DictGet(CurTheme, "name", <<"Theme", col_idx + 1>>)

frame_title == <<prefix, theme_name>>

fx == compute_frame_origin(col_idx, 0)[1]

fy == compute_frame_origin(col_idx, 0)[2]

activities == DictGet(CurTheme, "activities", <<>>)

CurActivity == activities[lane_idx + 1]

act_name == DictGet(CurActivity, "name", <<"Activit'e", lane_idx + 1>>)

title_x == fx - (FRAME_W \div 2) + 200

title_y == lane_title_y(fy, lane_idx)

stories == DictGet(CurActivity, "stories", <<>>)

start_x == fx - (FRAME_W \div 2) + 300

start_y == lane_y(fy, lane_idx)

positions == sticky_grid_positions(start_x, start_y, grid_columns, Len(stories))

CurStory_reversed == stories[Len(stories) - k]

CurStory == stories[k + 1]

sx == positions[k + 1][1]

sy == positions[k + 1][2]

sprint == DictGet(CurStory, "sprint", "S?")

team == DictGet(CurStory, "team", "MO")

status == DictGet(CurStory, "status", "Backlog")

color_mo_default == DictGet(TEAM_COLOR, team, "light_pink")

color == DictGet(TEAM_COLOR, team, "light_yellow")

emoji == DictGet(STATUS_EMOJI, status, "white_square")

\* f"{emoji} {title}\n[{team}] [{sprint}]", kept as its four parts
text == <<emoji, DictGet(CurStory, "title", "Story"), team, sprint>>

EnterLanes == pc' = "lane" /\ lane_idx' = 0 /\ UNCHANGED <<col_idx, k>>

\* after the lane title: `if not stories: continue`, else the sticky loop
AfterLaneTitle_break ==
    IF stories = <<>>
    THEN pc' = "theme" /\ col_idx' = col_idx + 1 /\ UNCHANGED <<lane_idx, k>>
    ELSE pc' = "sticky" /\ k' = 0 /\ UNCHANGED <<col_idx, lane_idx>>

AfterLaneTitle ==
    IF stories = <<>>
    THEN pc' = "lane" /\ lane_idx' = lane_idx + 1 /\ UNCHANGED <<col_idx, k>>
    ELSE pc' = "sticky" /\ k' = 0 /\ UNCHANGED <<col_idx, lane_idx>>

NextSticky == pc' = "sticky" /\ k' = k + 1 /\ UNCHANGED <<col_idx, lane_idx>>

FrameDry ==
    /\ pc = "theme" /\ col_idx < Len(render_themes) /\ dry_run
    /\ lines' = Append(lines, [kind |-> "DRY Frame", text |-> frame_title, x |-> fx, y |-> fy])
    /\ EnterLanes
    /\ UNCHANGED <<model, dry_run, calls, board, resp_status>>
    /\ UNCHANGED loadVars

FrameCreate ==
    /\ pc = "theme" /\ col_idx < Len(render_themes) /\ ~dry_run
    /\ \E st \in HttpStatus :
         post(create_frame(frame_title, fx, fy), st,
              /\ lines' = Append(lines, [kind |-> "Frame cr'e'e", text |-> frame_title])
              /\ EnterLanes)
    /\ UNCHANGED <<model, dry_run>>
    /\ UNCHANGED loadVars

ThemesDone ==
    /\ pc = "theme" /\ col_idx = Len(render_themes)
    /\ pc' = "done"
    /\ UNCHANGED <<model, dry_run, col_idx, lane_idx, k, calls, board, resp_status, lines>>
    /\ UNCHANGED loadVars

LaneDry_posts ==
    /\ pc = "lane" /\ lane_idx < Len(activities) /\ dry_run
    /\ lines' = Append(lines, [kind |-> "DRY Lane", text |-> act_name, x |-> title_x, y |-> title_y])
    /\ calls' = Append(calls, create_shape(act_name, title_x, title_y, 600, 60, "round_rectangle"))
    /\ AfterLaneTitle
    /\ UNCHANGED <<model, dry_run, board, resp_status>>
    /\ UNCHANGED loadVars

LaneDry ==
    /\ pc = "lane" /\ lane_idx < Len(activities) /\ dry_run
    /\ lines' = Append(lines, [kind |-> "DRY Lane", text |-> act_name, x |-> title_x, y |-> title_y])
    /\ AfterLaneTitle
    /\ UNCHANGED <<model, dry_run, calls, board, resp_status>>
    /\ UNCHANGED loadVars

LaneCreate ==
    /\ pc = "lane" /\ lane_idx < Len(activities) /\ ~dry_run
    /\ \E st \in HttpStatus :
         post(create_shape(act_name, title_x, title_y, 600, 60, "round_rectangle"), st,
              /\ lines' = Append(lines, [kind |-> "Lane titre cr'e'e", text |-> act_name])
              /\ AfterLaneTitle)
    /\ UNCHANGED <<model, dry_run>>
    /\ UNCHANGED loadVars

LanesDone ==
    /\ pc = "lane" /\ lane_idx = Len(activities)
    /\ pc' = "theme" /\ col_idx' = col_idx + 1
    /\ UNCHANGED <<model, dry_run, lane_idx, k, calls, board, resp_status, lines>>
    /\ UNCHANGED loadVars

StickyDry ==
    /\ pc = "sticky" /\ k < Len(stories) /\ dry_run
    /\ lines' = Append(lines, [kind |-> "DRY Sticky", text |-> text, x |-> sx, y |-> sy,
                               color |-> color])
    /\ NextSticky
    /\ UNCHANGED <<model, dry_run, calls, board, resp_status>>
    /\ UNCHANGED loadVars

StickyCreate ==
    /\ pc = "sticky" /\ k < Len(stories) /\ ~dry_run
    /\ \E st \in HttpStatus :
         post(create_sticky(text, sx, sy, color), st,
              /\ lines' = Append(lines, [kind |-> "Sticky cr'e'e", text |-> text])
              /\ NextSticky)
    /\ UNCHANGED <<model, dry_run>>
    /\ UNCHANGED loadVars

StickiesDone ==
    /\ pc = "sticky" /\ k = Len(stories)
    /\ pc' = "lane" /\ lane_idx' = lane_idx + 1
    /\ UNCHANGED <<model, dry_run, col_idx, k, calls, board, resp_status, lines>>
    /\ UNCHANGED loadVars

(***************************************************************************)
(* Inputs of render_storymap.  A drawn story map has up to MaxThemes       *)
(* themes; each theme has its own number of activities (up to MaxActs);    *)
(* the activity at lane j has counts[j] stories, the same in every theme.  *)
(* Names are the element's path in the tree, so that an emitted element    *)
(* can be traced back to its place.  StyleModels are one-story maps whose  *)
(* story carries any team and status, known, unknown, empty or absent.     *)
(***************************************************************************)
StoryCounts == {0, 1, grid_columns, MaxStories}

Teams == {"IHM", "BPM", "M'etier", "Metier", "Finance", "MO", "", "ihm", "QA"}

Statuses == {"Backlog", "`A faire", "En cours", "Bloqu'e", "`A valider", "Termin'e", "",
             "backlog", "Done"}

StoryAt(t, a, s) ==
    [title |-> <<"S", t, a, s>>, sprint |-> "S1", team |-> "IHM", status |-> "Backlog"]

ActivityAt(t, a, n) ==
    [name |-> <<"A", t, a>>, stories |-> [s \in 1..n |-> StoryAt(t, a, s - 1)]]

ThemeAt(t, nacts, counts) ==
    [name |-> <<"T", t>>, activities |-> [a \in 1..nacts |-> ActivityAt(t, a - 1, counts[a])]]

ShapeModels ==
    { [release |-> "R4", themes |-> [t \in 1..n |-> ThemeAt(t - 1, nacts[t], counts)]] :
        n \in 0..MaxThemes,
        nacts \in [1..MaxThemes -> 0..MaxActs],
        counts \in [1..MaxActs -> StoryCounts] }

NoKey == "<absent>"

StyledStory(tm, st) ==
    LET base == [title |-> <<"S", 0, 0, 0>>, sprint |-> "S2"]
        withTeam == IF tm = NoKey THEN base ELSE base @@ [team |-> tm]
    IN IF st = NoKey THEN withTeam ELSE withTeam @@ [status |-> st]

StyleModels ==
    { [release |-> "R4",
       themes |-> << [name |-> <<"T", 0>>,
                      activities |-> << [name |-> <<"A", 0, 0>>,
                                         stories |-> << StyledStory(tm, st) >>] >>] >>] :
        tm \in Teams \cup {NoKey}, st \in Statuses \cup {NoKey} }

LoadIdle ==
    /\ header = <<>> /\ rows = <<>> /\ ri = 0 /\ themes = <<>> /\ loadpc = "idle"

InitRender ==
    /\ model \in ShapeModels \cup StyleModels
    /\ dry_run \in BOOLEAN
    /\ pc = "theme"
    /\ col_idx = 0 /\ lane_idx = 0 /\ k = 0
    /\ calls = <<>> /\ board = <<>> /\ resp_status = 0 /\ lines = <<>>
    /\ LoadIdle

NextRender ==
    \/ FrameDry \/ FrameCreate \/ ThemesDone
    \/ LaneDry \/ LaneCreate \/ LanesDone
    \/ StickyDry \/ StickyCreate \/ StickiesDone

SpecRender == InitRender /\ [][NextRender]_vars

(***************************************************************************)
(* load_from_csv.  The file is read by csv.DictReader: the first row gives *)
(* the field names; a data row without any field (a blank line) is skipped *)
(* by the reader; a data row with fewer fields than the header gets None   *)
(* (the reader's restval) for every field it lacks.  One action per data   *)
(* row.  A str is a sequence of one-character strings; None is a value     *)
(* that is no such sequence.                                               *)
(***************************************************************************)
None == <<"<None>">>

IsSpace(c) == c \in {" ", "\t", "\n"}

RECURSIVE lstrip(_)
lstrip(s) == IF s # <<>> /\ IsSpace(Head(s)) THEN lstrip(Tail(s)) ELSE s

RECURSIVE rstrip(_)
rstrip(s) ==
    IF s # <<>> /\ IsSpace(s[Len(s)]) THEN rstrip(SubSeq(s, 1, Len(s) - 1)) ELSE s

\* str.strip()
strip(s) == rstrip(lstrip(s))

LowerOf ==
    ("A" :> "a") @@ ("B" :> "b") @@ ("G" :> "g") @@ ("H" :> "h") @@ ("I" :> "i") @@
    ("M" :> "m") @@ ("O" :> "o") @@ ("S" :> "s") @@ ("T" :> "t") @@ ("U" :> "u")

\* str.lower()
lower(s) == [i \in 1..Len(s) |-> DictGet(LowerOf, s[i], s[i])]

\* The dict DictReader yields for data row `cells` under `header`.
RowDict(cells) ==
    [c \in {header[i] : i \in 1..Len(header)} |->
        LET i == CHOOSE j \in 1..Len(header) : header[j] = c
        IN IF i <= Len(cells) THEN cells[i] ELSE None]

row == RowDict(rows[ri + 1])

Inconnu == <<"I", "n", "c", "o", "n", "n", "u">>

General_fr == <<"G", "'e", "n", "'e", "r", "a", "l">>

\* the seven row.get(column, default) values, before .strip()
RowFields ==
    [Theme |-> DictGet(row, "Theme", Inconnu),
     Activity |-> DictGet(row, "Activity", General_fr),
     Story |-> DictGet(row, "Story", <<>>),
     Sprint |-> DictGet(row, "Sprint", <<"S", "1">>),
     Team |-> DictGet(row, "Team", <<"M", "O">>),
     Status |-> DictGet(row, "Status", <<"B", "a", "c", "k", "l", "o", "g">>),
     Notes |-> DictGet(row, "Notes", <<>>)]

\* None has no strip(): AttributeError
StripRaises == \E f \in DOMAIN RowFields : RowFields[f] = None

\* `theme not in themes`: dict keys are compared as written
ThemeIndex(ths, name) ==
    IF \E i \in 1..Len(ths) : ths[i].name = name
    THEN CHOOSE i \in 1..Len(ths) : ths[i].name = name
    ELSE 0

\* next((a for a in acts if a["name"].lower() == activity.lower()), None)
FindActivity_exact(acts, activity) ==
    IF \E i \in 1..Len(acts) : acts[i].name = activity
    THEN CHOOSE i \in 1..Len(acts) :
            /\ acts[i].name = activity
            /\ \A j \in 1..(i - 1) : acts[j].name # activity
    ELSE 0

FindActivity(acts, activity) ==
    IF \E i \in 1..Len(acts) : lower(acts[i].name) = lower(activity)
    THEN CHOOSE i \in 1..Len(acts) :
            /\ lower(acts[i].name) = lower(activity)
            /\ \A j \in 1..(i - 1) : lower(acts[j].name) # lower(activity)
    ELSE 0

\* title = story if not notes else f"{story}\n\n<memo> {notes}"
Title(story, notes) ==
    IF notes = <<>> THEN story ELSE story \o <<"\n", "\n", "memo", " ">> \o notes

\* The loop body on one row: themes after the row is merged.
MergeRow(ths) ==
    LET theme == strip(RowFields.Theme)
        activity == strip(RowFields.Activity)
        story == strip(RowFields.Story)
        sprint_ == strip(RowFields.Sprint)
        team_ == strip(RowFields.Team)
        status_ == strip(RowFields.Status)
        notes == strip(RowFields.Notes)
        ths1 == IF ThemeIndex(ths, theme) = 0
                THEN Append(ths, [name |-> theme, activities |-> <<>>])
                ELSE ths
        ti == ThemeIndex(ths1, theme)
        acts == ths1[ti].activities
        acts1 == IF FindActivity(acts, activity) = 0
                 THEN Append(acts, [name |-> activity, stories |-> <<>>])
                 ELSE acts
        ai == FindActivity(acts1, activity)
        st == [title |-> Title(story, notes), sprint |-> sprint_, team |-> team_,
               status |-> status_]
    IN [ths1 EXCEPT ![ti].activities =
            [acts1 EXCEPT ![ai].stories = Append(acts1[ai].stories, st)]]

SkipBlankRow ==
    /\ loadpc = "loop" /\ ri < Len(rows) /\ rows[ri + 1] = <<>>
    /\ ri' = ri + 1
    /\ UNCHANGED <<header, rows, themes, loadpc>>
    /\ UNCHANGED renderVars

LoadRow ==
    /\ loadpc = "loop" /\ ri < Len(rows) /\ rows[ri + 1] # <<>>
    /\ ~StripRaises
    /\ themes' = MergeRow(themes)
    /\ ri' = ri + 1
    /\ UNCHANGED <<header, rows, loadpc>>
    /\ UNCHANGED renderVars

LoadRowRaises ==
    /\ loadpc = "loop" /\ ri < Len(rows) /\ rows[ri + 1] # <<>>
    /\ StripRaises
    /\ loadpc' = "raised"
    /\ ri' = ri + 1
    /\ UNCHANGED <<header, rows, themes>>
    /\ UNCHANGED renderVars

LoadReturn ==
    /\ loadpc = "loop" /\ ri = Len(rows)
    /\ model' = [model EXCEPT !.themes = themes]
    /\ loadpc' = "done"
    /\ UNCHANGED <<header, rows, ri, themes>>
    /\ UNCHANGED <<dry_run, pc, col_idx, lane_idx, k, calls, board, resp_status, lines>>

(***************************************************************************)
(* Inputs of load_from_csv.  MergeFiles have the full header and complete  *)
(* rows whose theme and activity vary in spelling, case and padding.       *)
(* GapFiles have the full header or one column less, and rows equal to one *)
(* base row except for one row, which has one field empty or is cut short  *)
(* (down to a blank line).  Rows longer than the header are not drawn: the *)
(* reader files their extra fields under the key None, which the loop      *)
(* never reads.                                                            *)
(***************************************************************************)
Columns == <<"Theme", "Activity", "Story", "Sprint", "Team", "Status", "Notes">>

ThemeCells == {<<"t">>, <<"T">>, <<"u", " ">>}

ActivityCells == {<<"a">>, <<"A">>, <<" ", "b">>}

MergeRowCells(th, ac, i) ==
    <<th, ac, <<"s", ToString(i)>>, <<"S", "2">>, <<"I", "H", "M">>,
      <<"E", "n", " ", "c", "o", "u", "r", "s">>, <<>>>>

MergeFiles ==
    { [header |-> Columns, rows |-> [i \in 1..n |-> MergeRowCells(ths[i], acs[i], i)]] :
        n \in 0..MaxRows,
        ths \in [1..MaxRows -> ThemeCells],
        acs \in [1..MaxRows -> ActivityCells] }

\* Columns without its d-th column (d = 0: all of them)
DropColumn(seq, d) == [i \in 1..(Len(seq) - (IF d = 0 THEN 0 ELSE 1)) |->
                          IF d = 0 \/ i < d THEN seq[i] ELSE seq[i + 1]]

BaseCells == <<<<"t">>, <<"a">>, <<"s", "1">>, <<"S", "2">>, <<"I", "H", "M">>,
               <<"E", "n", " ", "c", "o", "u", "r", "s">>, <<"n">>>>

\* a row with field e emptied (e = 0: none) and cut to its first len fields
Damage(cells, e, len) ==
    [i \in 1..(IF len < Len(cells) THEN len ELSE Len(cells)) |->
        IF i = e THEN <<>> ELSE cells[i]]

GapFile(d, n, bad, e, len) ==
    [header |-> DropColumn(Columns, d),
     rows |-> [i \in 1..n |->
                 IF i = bad THEN Damage(DropColumn(BaseCells, d), e, len)
                 ELSE DropColumn(BaseCells, d)]]

GapFiles ==
    { GapFile(d, n, bad, e, Len(Columns)) :
        d \in 0..Len(Columns), n \in 1..MaxRows, bad \in 1..MaxRows, e \in 0..Len(Columns) }
    \cup
    { GapFile(d, n, bad, 0, len) :
        d \in 0..Len(Columns), n \in 1..MaxRows, bad \in 1..MaxRows, len \in 0..Len(Columns) }

RenderIdle ==
    /\ dry_run = FALSE /\ pc = "idle"
    /\ col_idx = 0 /\ lane_idx = 0 /\ k = 0
    /\ calls = <<>> /\ board = <<>> /\ resp_status = 0 /\ lines = <<>>

InitLoad ==
    /\ \E f \in MergeFiles \cup GapFiles : header = f.header /\ rows = f.rows
    /\ ri = 0
    /\ themes = <<>>
    /\ model = [release |-> "R4", themes |-> <<>>]
    /\ loadpc = "loop"
    /\ RenderIdle

NextLoad == SkipBlankRow \/ LoadRow \/ LoadRowRaises \/ LoadReturn

SpecLoad == InitLoad /\ [][NextLoad]_vars

(***************************************************************************)
(* Vocabulary of the properties of render_storymap.                        *)
(***************************************************************************)
RECURSIVE Flatten(_)
Flatten(ss) == IF ss = <<>> THEN <<>> ELSE Head(ss) \o Flatten(Tail(ss))

IsPrefix(s, t) == Len(s) <= Len(t) /\ SubSeq(t, 1, Len(s)) = s

Abs(n) == IF n < 0 THEN -n ELSE n

\* The elements of the rendered tree in depth-first pre-order.
ActivityElems(act) ==
    << [cls |-> "lane", name |-> act.name] >> \o
    [s \in 1..Len(act.stories) |-> [cls |-> "tile", name |-> act.stories[s].title]]

ThemeElems(th) ==
    << [cls |-> "frame", name |-> th.name] >> \o
    Flatten([a \in 1..Len(th.activities) |-> ActivityElems(th.activities[a])])

PreOrder == Flatten([t \in 1..Len(model.themes) |-> ThemeElems(model.themes[t])])

\* What a request or a preview line is about.
IsFrame(e) == e.kind \in {"create_frame", "DRY Frame"}

IsLane(e) == e.kind \in {"create_shape", "DRY Lane"}

IsTile(e) == e.kind \in {"create_sticky", "DRY Sticky"}

ElemOf(e) ==
    IF IsFrame(e) THEN [cls |-> "frame", name |-> e.text[2]]
    ELSE IF IsLane(e) THEN [cls |-> "lane", name |-> e.text]
    ELSE [cls |-> "tile", name |-> e.text[2]]

ElemsOf(es) == [i \in 1..Len(es) |-> ElemOf(es[i])]

\* The placements of the pass: requests in apply mode, preview lines in preview mode.
Placed == IF dry_run THEN lines ELSE calls

Frames == SelectSeq(Placed, IsFrame)

Tiles == SelectSeq(Placed, IsTile)

\* A tile's story is named <<"S", t, a, s>>: theme t, lane a, story s.
TileTheme(e) == e.text[2][2]

TileLane(e) == e.text[2][3]

TileStory(e) == e.text[2][4]

Overlap(e1, e2, w, h) == Abs(e1.x - e2.x) < w /\ Abs(e1.y - e2.y) < h

StoriesOfLane(t, a) == model.themes[t + 1].activities[a + 1].stories

\* C1: in apply mode with no failed call, the requests sent so far are, one per
\* element and in order, an initial part of the tree's depth-first pre-order
\* (frame, then per activity its lane title followed by its stickies, theme by
\* theme), every request was answered by a creation, and a finished pass has
\* sent the whole pre-order.
C1_ApplyOrder ==
    (~dry_run /\ pc # "idle" /\ resp_status < 400) =>
        LET order == PreOrder IN
        /\ IsPrefix(ElemsOf(calls), order)
        /\ \A i \in 1..Len(calls) :
              calls[i].kind = (CASE order[i].cls = "frame" -> "create_frame"
                                 [] order[i].cls = "lane" -> "create_shape"
                                 [] OTHER -> "create_sticky")
        /\ board = calls
        /\ (pc = "done" => Len(calls) = Len(order))

C1_Witness ==
    /\ ~dry_run /\ pc = "done" /\ resp_status < 400
    /\ Len(model.themes) >= 2
    /\ \A t \in 1..Len(model.themes) :
          /\ Len(model.themes[t].activities) >= 2
          /\ \A a \in 1..Len(model.themes[t].activities) :
                Len(model.themes[t].activities[a].stories) >= 4
    /\ ElemsOf(calls) = PreOrder

\* C2: in preview mode no request is ever sent and the preview lines are, one
\* per element and in order, an initial part of the pre-order; a finished pass
\* has printed one line for every element.
C2_PreviewNoSink ==
    dry_run =>
        LET order == PreOrder IN
        /\ calls = <<>> /\ board = <<>> /\ resp_status = 0
        /\ IsPrefix(ElemsOf(lines), order)
        /\ \A i \in 1..Len(lines) :
              lines[i].kind = (CASE order[i].cls = "frame" -> "DRY Frame"
                                 [] order[i].cls = "lane" -> "DRY Lane"
                                 [] OTHER -> "DRY Sticky")
        /\ (pc = "done" => Len(lines) = Len(order))

C2_Witness ==
    /\ dry_run /\ pc = "done"
    /\ Len(lines) >= 6
    /\ \E i \in 1..Len(lines) : IsLane(lines[i])
    /\ \E i \in 1..Len(lines) : IsTile(lines[i])
    /\ calls = <<>>

\* C3: a request answered with a status of 400 or more ends the run at once:
\* it is the last request ever sent (no retry, nothing for later elements), the
\* board keeps exactly the items created before it, and the board never loses
\* an item.
C3_FailureAborts ==
    /\ [](resp_status >= 400 =>
            /\ pc = "raised"
            /\ calls # <<>>
            /\ board = SubSeq(calls, 1, Len(calls) - 1))
    /\ [][(pc = "raised" => (calls' = calls /\ board' = board /\ pc' = "raised"))
          /\ IsPrefix(board, board')]_vars

C3_Witness ==
    /\ pc = "raised" /\ resp_status >= 400
    /\ Len(board) >= 3
    /\ Len(calls) = Len(board) + 1
    /\ Len(calls) < Len(PreOrder)

\* C4: the i-th frame placed (i counted from 0) is the frame of theme i, at
\* x = ORIGIN_X + i * (FRAME_W + COL_GAP) and y = ORIGIN_Y; a finished pass has
\* placed the frames of all N themes.
C4_FrameColumns ==
    LET frames == Frames IN
    /\ \A i \in 1..Len(frames) :
          /\ frames[i].text = <<prefix, model.themes[i].name>>
          /\ frames[i].x = ORIGIN_X + (i - 1) * (FRAME_W + COL_GAP)
          /\ frames[i].y = ORIGIN_Y
    /\ (pc = "done" => Len(frames) = Len(model.themes))

C4_Witness ==
    /\ pc = "done"
    /\ Len(Frames) = MaxThemes
    /\ Frames[2].x = ORIGIN_X + FRAME_W + COL_GAP
    /\ Frames[2].y = Frames[1].y

\* C5: the tile of story i of a lane is at column i mod 4 and row i div 4 of
\* the grid that starts at the lane's content origin.
C5_GridPacking ==
    LET tiles == Tiles IN
    \A j \in 1..Len(tiles) :
        LET e == tiles[j]
            i == TileStory(e)
            origin == compute_frame_origin(TileTheme(e), 0)
            x0 == origin[1] - (FRAME_W \div 2) + 300
            y0 == lane_y(origin[2], TileLane(e))
        IN /\ e.x = x0 + (i % 4) * (STICKY_W + STICKY_GAP_X)
           /\ e.y = y0 + (i \div 4) * (STICKY_H + STICKY_GAP_Y)
           /\ i < Len(StoriesOfLane(TileTheme(e), TileLane(e)))
           /\ e.text[2] = StoriesOfLane(TileTheme(e), TileLane(e))[i + 1].title

C5_Witness ==
    \E j \in 1..Len(Tiles) :
        /\ TileStory(Tiles[j]) = 4
        /\ \E j0 \in 1..Len(Tiles) :
              /\ TileStory(Tiles[j0]) = 0
              /\ TileTheme(Tiles[j0]) = TileTheme(Tiles[j])
              /\ TileLane(Tiles[j0]) = TileLane(Tiles[j])
              /\ Tiles[j].x = Tiles[j0].x
              /\ Tiles[j].y = Tiles[j0].y + STICKY_H + STICKY_GAP_Y

\* C6: a finished pass has placed exactly one frame per theme, one lane title
\* per activity and one tile per story, and nothing else; so an activity
\* without stories has its lane title and no tile, and a theme without
\* activities has its frame only.
C6_OnePlacementPerElement ==
    (pc = "done") =>
        LET placed == ElemsOf(Placed)
            tiles == Tiles
            N(el) == Cardinality({i \in 1..Len(placed) : placed[i] = el})
        IN
        /\ \A t \in 1..Len(model.themes) :
              LET th == model.themes[t] IN
              /\ N([cls |-> "frame", name |-> th.name]) = 1
              /\ \A a \in 1..Len(th.activities) :
                    LET act == th.activities[a] IN
                    /\ N([cls |-> "lane", name |-> act.name]) = 1
                    /\ \A n \in 1..Len(act.stories) :
                          N([cls |-> "tile", name |-> act.stories[n].title]) = 1
                    /\ Cardinality({j \in 1..Len(tiles) :
                                      /\ TileTheme(tiles[j]) = t - 1
                                      /\ TileLane(tiles[j]) = a - 1}) = Len(act.stories)
              /\ Cardinality({i \in 1..Len(placed) :
                                /\ placed[i].cls = "lane"
                                /\ placed[i].name[2] = t - 1}) = Len(th.activities)
        /\ Cardinality({i \in 1..Len(placed) : placed[i].cls = "frame"}) = Len(model.themes)

C6_Witness ==
    /\ pc = "done"
    /\ \E t \in 1..Len(model.themes) : model.themes[t].activities = <<>>
    /\ \E t \in 1..Len(model.themes) :
          /\ Len(model.themes[t].activities) >= 2
          /\ model.themes[t].activities[1].stories = <<>>
          /\ model.themes[t].activities[2].stories # <<>>
          /\ \E i \in 1..Len(Placed) :
                /\ IsLane(Placed[i])
                /\ Placed[i].text = model.themes[t].activities[2].name

\* C7 as stated: no two frames overlap and no two tiles overlap.
C7_NoOverlap ==
    LET frames == Frames
        tiles == Tiles
    IN
    /\ \A i, j \in 1..Len(frames) :
          i # j => ~Overlap(frames[i], frames[j], FRAME_W, FRAME_H)
    /\ \A i \in 1..Len(tiles) : \A j \in (i + 1)..Len(tiles) :
          ~Overlap(tiles[i], tiles[j], STICKY_W, STICKY_H)

\* C7 amended: no two frames overlap; two tiles overlap only when they are in
\* different lanes of the same theme and the earlier of the two lanes has more
\* than 4 stories (its second grid row runs into the next lane's band).
C7_NoOverlapUnlessLaneOverflows ==
    LET frames == Frames
        tiles == Tiles
    IN
    /\ \A i, j \in 1..Len(frames) :
          i # j => ~Overlap(frames[i], frames[j], FRAME_W, FRAME_H)
    /\ \A i \in 1..Len(tiles) : \A j \in (i + 1)..Len(tiles) :
          Overlap(tiles[i], tiles[j], STICKY_W, STICKY_H) =>
              /\ TileTheme(tiles[i]) = TileTheme(tiles[j])
              /\ TileLane(tiles[i]) # TileLane(tiles[j])
              /\ LET first == IF TileLane(tiles[i]) < TileLane(tiles[j])
                              THEN TileLane(tiles[i]) ELSE TileLane(tiles[j])
                 IN Len(StoriesOfLane(TileTheme(tiles[i]), first)) > 4

C7_Witness ==
    /\ pc = "done"
    /\ Len(Frames) >= 2
    /\ \E i, j \in 1..Len(Tiles) :
          /\ TileTheme(Tiles[i]) = TileTheme(Tiles[j])
          /\ TileLane(Tiles[i]) # TileLane(Tiles[j])
          /\ TileStory(Tiles[i]) = 3
          /\ TileStory(Tiles[j]) = 3
    /\ \E i, j \in 1..Len(Tiles) :
          /\ TileTheme(Tiles[i]) # TileTheme(Tiles[j])
          /\ TileStory(Tiles[i]) = 3
    /\ \A i, j \in 1..Len(Tiles) :
          i # j => ~Overlap(Tiles[i], Tiles[j], STICKY_W, STICKY_H)

\* C8: every tile's colour is the team table's token when the tile's team is
\* one of the table's keys as written, and light_yellow otherwise; its marker
\* is the status table's glyph for a known status, and the Backlog glyph
\* otherwise.  The team and the status are the story's, "MO" and "Backlog"
\* when the story has none.
C8_StyleFallback ==
    LET tiles == Tiles IN
    \A j \in 1..Len(tiles) :
        LET e == tiles[j]
            story == StoriesOfLane(TileTheme(e), TileLane(e))[TileStory(e) + 1]
            tm == IF "team" \in DOMAIN story THEN story.team ELSE "MO"
            st == IF "status" \in DOMAIN story THEN story.status ELSE "Backlog"
        IN /\ e.text[3] = tm
           /\ e.color = (CASE tm = "IHM" -> "light_yellow"
                           [] tm = "BPM" -> "light_green"
                           [] tm \in {"M'etier", "Metier", "Finance"} -> "light_blue"
                           [] tm = "MO" -> "light_pink"
                           [] OTHER -> "light_yellow")
           /\ e.text[1] = (CASE st = "Backlog" -> "white_square"
                             [] st = "`A faire" -> "blue_square"
                             [] st = "En cours" -> "yellow_square"
                             [] st = "Bloqu'e" -> "red_square"
                             [] st = "`A valider" -> "purple_square"
                             [] st = "Termin'e" -> "check_mark"
                             [] OTHER -> "white_square")

C8_Witness ==
    /\ Len(Tiles) = 1
    /\ Tiles[1].text[3] = "ihm"
    /\ Tiles[1].color = "light_yellow"
    /\ LET story == StoriesOfLane(TileTheme(Tiles[1]), TileLane(Tiles[1]))[1]
       IN "status" \in DOMAIN story /\ story.status = ""
    /\ Tiles[1].text[1] = "white_square"

(***************************************************************************)
(* Vocabulary of the properties of load_from_csv.                          *)
(***************************************************************************)
\* The data rows the reader yields (blank lines are skipped), as dicts.
DataRows == SelectSeq(rows, LAMBDA cells : cells # <<>>)

CellOf(cells, column, default) == strip(DictGet(RowDict(cells), column, default))

ThemeOf(cells) == CellOf(cells, "Theme", Inconnu)

ActivityOf(cells) == CellOf(cells, "Activity", General_fr)

TitleOf(cells) == Title(CellOf(cells, "Story", <<>>), CellOf(cells, "Notes", <<>>))

\* index of the first data row that satisfies P
FirstRow(P(_)) ==
    CHOOSE i \in 1..Len(DataRows) :
        P(DataRows[i]) /\ \A j \in 1..(i - 1) : ~P(DataRows[j])

\* C9: the returned tree has one theme per distinct theme name of the rows
\* (names compared as written), in the order the names first appear; a theme
\* has one activity per activity name of its rows compared without case,
\* spelled as in the first such row and in first-seen order; an activity's
\* stories are the stories of its rows, one per row, in row order.  The tree
\* is thereby a function of the rows: the same rows give the same tree.
C9_MergeTree ==
    (loadpc = "done") =>
        LET T == model.themes IN
        /\ {T[i].name : i \in 1..Len(T)} = {ThemeOf(DataRows[r]) : r \in 1..Len(DataRows)}
        /\ \A i, j \in 1..Len(T) :
              /\ (i # j => T[i].name # T[j].name)
              /\ (i < j =>
                    FirstRow(LAMBDA c : ThemeOf(c) = T[i].name)
                        < FirstRow(LAMBDA c : ThemeOf(c) = T[j].name))
        /\ \A i \in 1..Len(T) :
              LET A == T[i].activities
                  mine == SelectSeq(DataRows, LAMBDA c : ThemeOf(c) = T[i].name)
                  InAct(c, a) == ThemeOf(c) = T[i].name
                                 /\ lower(ActivityOf(c)) = lower(A[a].name)
              IN /\ {lower(A[a].name) : a \in 1..Len(A)}
                        = {lower(ActivityOf(mine[r])) : r \in 1..Len(mine)}
                 /\ \A a, b \in 1..Len(A) :
                       /\ (a # b => lower(A[a].name) # lower(A[b].name))
                       /\ (a < b =>
                             FirstRow(LAMBDA c : InAct(c, a)) < FirstRow(LAMBDA c : InAct(c, b)))
                 /\ \A a \in 1..Len(A) :
                       LET its == SelectSeq(DataRows, LAMBDA c : InAct(c, a)) IN
                       /\ A[a].name = ActivityOf(DataRows[FirstRow(LAMBDA c : InAct(c, a))])
                       /\ Len(A[a].stories) = Len(its)
                       /\ \A n \in 1..Len(its) : A[a].stories[n].title = TitleOf(its[n])

C9_Witness ==
    /\ loadpc = "done"
    /\ Len(rows) = 3
    /\ Len(model.themes) = 2
    /\ model.themes[1].name = <<"t">>
    /\ model.themes[2].name = <<"T">>
    /\ Len(model.themes[1].activities) = 1
    /\ model.themes[1].activities[1].name = <<"A">>
    /\ Len(model.themes[1].activities[1].stories) = 2
    /\ model.themes[1].activities[1].stories[1].title = <<"s", "1">>
    /\ model.themes[1].activities[1].stories[2].title = <<"s", "3">>
    /\ rows[3][2] = <<"a">>

\* C10 as stated: no row makes the load raise, and a field that is missing
\* (its column absent, its value absent in a short row, or empty) is replaced
\* by "Unknown", "General", "S1", "MO" or "Backlog"; a missing Story (with no
\* note) gives an empty title.  Stated for files with a single data row.
Missing(cells, column) ==
    \/ column \notin DOMAIN RowDict(cells)
    \/ RowDict(cells)[column] = None
    \/ RowDict(cells)[column] = <<>>

C10_LoadTotal ==
    /\ loadpc # "raised"
    /\ (loadpc = "done" /\ Len(DataRows) = 1) =>
          LET c == DataRows[1]
              th == model.themes[1]
              st == th.activities[1].stories[1]
          IN /\ Len(model.themes) = 1
             /\ (Missing(c, "Theme") => th.name = <<"U", "n", "k", "n", "o", "w", "n">>)
             /\ (Missing(c, "Activity") =>
                    th.activities[1].name = <<"G", "e", "n", "e", "r", "a", "l">>)
             /\ (Missing(c, "Sprint") => st.sprint = <<"S", "1">>)
             /\ (Missing(c, "Team") => st.team = <<"M", "O">>)
             /\ (Missing(c, "Status") => st.status = <<"B", "a", "c", "k", "l", "o", "g">>)
             /\ ((Missing(c, "Story") /\ Missing(c, "Notes")) => st.title = <<>>)

====
